---- MODULE Spec2Model ----
(***************************************************************************)
(* Model of the AI music-video generation server.                          *)
(*                                                                         *)
(* The repository holds two versions of the server:                        *)
(*   src/unnamed/part_000  POST /api/generate-video with the shared        *)
(*                         generationProgress object, GET /api/progress    *)
(*                         and the music-generation service: actions P_..  *)
(*   src/index.js          POST /api/generate-video answering only when    *)
(*                         the run is over, audio from the sound library   *)
(*                         (actions I_..), and searchAndDownloadMusic      *)
(*                         (actions S_..)                                  *)
(* One behaviour runs one of them (variable impl).  JavaScript runs one    *)
(* callback at a time, so one action is the code between two awaits on an  *)
(* external party (image service, music service, sound library, encoder,   *)
(* database, file deletion).                                               *)
(***************************************************************************)
EXTENDS Integers, Sequences, FiniteSets, TLC

(***************************************************************************)
(* Bounds of the model.                                                    *)
(***************************************************************************)
NumRequests == 2
MaxTime == 1
MaxUnlinkFailures == 1
MaxNoPayload == 1

Requests == 1..NumRequests

(***************************************************************************)
(* Text.  A text is a sequence of lexemes, each a run of characters of one *)
(* class: "w" word characters [A-Za-z0-9_], "s" characters of [\s.,!?],    *)
(* "o" any other character.  The text itself is the concatenation.         *)
(***************************************************************************)
W(t) == [cls |-> "w", txt |-> t]
Sp(t) == [cls |-> "s", txt |-> t]
Ot(t) == [cls |-> "o", txt |-> t]

RECURSIVE Raw(_)
Raw(text) == IF text = <<>> THEN "" ELSE Head(text).txt \o Raw(Tail(text))

\* String.prototype.trim: leading and trailing white space removed; the
\* lexemes of class "s" used in the model's prompts are blanks only.
RECURSIVE TrimLeft(_)
TrimLeft(text) ==
    IF text = <<>> THEN <<>>
    ELSE IF Head(text).cls = "s" /\ Head(text).txt = " " THEN TrimLeft(Tail(text))
    ELSE text

RECURSIVE Reverse(_)
Reverse(s) == IF s = <<>> THEN <<>> ELSE Append(Reverse(Tail(s)), Head(s))

Trim(text) == Reverse(TrimLeft(Reverse(TrimLeft(text))))

\* String.prototype.toLowerCase over the words the model's prompts use.
LowerWord(t) ==
    CASE t = "Calm" -> "calm"
      [] t = "LAKE" -> "lake"
      [] t = "Sunrise" -> "sunrise"
      [] t = "The" -> "the"
      [] OTHER -> t

toLowerCase(text) == [k \in 1..Len(text) |-> [text[k] EXCEPT !.txt = LowerWord(@)]]

\* String.prototype.split(re) where re matches a run of separator
\* characters: the pieces between the runs, an empty piece before a leading
\* run and after a trailing one.
RECURSIVE SplitFrom(_, _, _, _)
SplitFrom(text, seps, cur, inRun) ==
    IF text = <<>> THEN <<cur>>
    ELSE IF Head(text).cls \in seps
         THEN IF inRun THEN SplitFrom(Tail(text), seps, cur, TRUE)
              ELSE <<cur>> \o SplitFrom(Tail(text), seps, "", TRUE)
         ELSE SplitFrom(Tail(text), seps, cur \o Head(text).txt, FALSE)

Split(text, seps) == SplitFrom(text, seps, "", FALSE)

Includes(s, x) == \E k \in 1..Len(s) : s[k] = x

commonWords == <<"a", "an", "the", "and", "or", "but", "in", "on", "at", "to", "for", "with", "by">>

KeepKeyword(word) == Len(word) > 2 /\ ~Includes(commonWords, word)

\* split(/\W+/): every character that is not a word character separates.
extractKeywords(prompt) == SelectSeq(Split(toLowerCase(prompt), {"s", "o"}), KeepKeyword)

DEFAULT_CATEGORIES ==
    <<"ambient music", "background music", "soundtrack", "atmospheric music", "instrumental">>

\* generateFramePrompt of part_000: the scene of the frame's index, the
\* first scene for an index the table does not hold, then the enhancers.
scenes ==
    <<"wide establishing shot, cinematic landscape",
      "medium shot, focusing on main subject",
      "close-up shot, showing details",
      "action shot, dynamic movement",
      "dramatic finale shot">>

enhancers ==
    <<"cinematic lighting", "professional photography", "high detail",
      "8k resolution", "masterful composition">>

\* Array.prototype.join
RECURSIVE join(_, _)
join(s, sep) ==
    IF s = <<>> THEN ""
    ELSE IF Len(s) = 1 THEN s[1]
    ELSE s[1] \o sep \o join(Tail(s), sep)

generateFramePrompt(basePrompt, index, totalFrames) ==
    LET sceneType == IF index \in DOMAIN scenes THEN scenes[index] ELSE scenes[1]
    IN basePrompt \o ", " \o sceneType \o ", " \o join(enhancers, ", ")

\* The frame prompt of index.js:
\* `${prompt}, scene ${i + 1}, cinematic quality, high detail`
I_FramePrompt(prompt, i) ==
    prompt \o ", scene " \o ToString(i + 1) \o ", cinematic quality, high detail"

(***************************************************************************)
(* Numbers.                                                                *)
(***************************************************************************)
\* Math.ceil(a / b) for an integer a and b > 0.
Ceil(a, b) == -((-a) \div b)

\* Math.round(a / b) for an integer a and b > 0: halves round up.
Round(a, b) == (2 * a + b) \div (2 * b)

Max(a, b) == IF a >= b THEN a ELSE b

\* Number(duration) of the request body's duration field.
Num(n) == [nan |-> FALSE, n |-> n]
NaN == [nan |-> TRUE, n |-> 0]
Number(raw) ==
    CASE raw.kind = "number" -> Num(raw.n)
      [] raw.kind = "null" -> Num(0)
      [] OTHER -> NaN

\* Math.floor in the place of Math.ceil.
FrameCount_Floor(durationNum) == durationNum \div 2

\* The frame count the route asks for: Math.ceil(durationNum / 2).
FrameCount(durationNum) == Ceil(durationNum, 2)

\* The frames counted on the whole scale of 100.
FramePercent_OfHundred(i, numFrames) == Round(i * 100, numFrames)

\* Math.round((i / numFrames) * 40)
FramePercent(i, numFrames) == Round(i * 40, numFrames)

\* 75 + Math.round(progress.percent * 0.2)
EncodingPercent(percent) == 75 + Round(percent, 5)

MusicPercent == 45
CreatingPercent == 75
FinalizingPercent == 90
CompletePercent == 100
ErrorPercent == -1

(***************************************************************************)
(* Values.                                                                 *)
(***************************************************************************)
Path(kind, t, i) == [kind |-> kind, t |-> t, i |-> i]
NoPath == Path("none", 0, 0)

\* `/videos/${path.basename(videoPath)}`
VideoUrl(videoPath) == [videoPath EXCEPT !.kind = "url"]

Status(label, i, n) == [label |-> label, i |-> i, n |-> n]
Err(msg, i) == [msg |-> msg, i |-> i]
NullError == Err("null", 0)

NoResponse == [code |-> 0, error |-> NullError, videoUrl |-> NoPath]
Respond(code, error, videoUrl) == [code |-> code, error |-> error, videoUrl |-> videoUrl]

(***************************************************************************)
(* Inputs of the model.                                                    *)
(***************************************************************************)
TheLake == <<W("The"), Sp(" "), W("LAKE")>>
Blank == <<Sp(" ")>>
PromptInputs == {TheLake, Blank}

\* Prompts of the calls of searchAndDownloadMusic.
CalmLake == <<W("a"), Sp(" "), W("Calm"), Sp(" "), W("LAKE"), Sp(" "), W("at"), Sp(" "), W("Sunrise")>>
Soundtrack == <<W("soundtrack")>>
At == <<W("at")>>
RedLake == <<W("red"), Ot("-"), W("lake")>>
SearchPrompts == {CalmLake, TheLake, Soundtrack, At, RedLake}

DurationInputs ==
    {[kind |-> "number", n |-> 7], [kind |-> "text", n |-> 0]}

\* Durations of a request body sent without the client's form: a number in
\* or out of range, a text that is no number, null.
BodyDurationInputs ==
    {[kind |-> "number", n |-> 7], [kind |-> "number", n |-> 0],
     [kind |-> "number", n |-> -3], [kind |-> "text", n |-> 0], [kind |-> "null", n |-> 0]}

\* handleDurationChange of the client keeps the duration in [5, 30].
MinDuration == 5
MaxDuration == 30
FormDurationInputs == {[kind |-> "number", n |-> n] : n \in MinDuration..MaxDuration}

\* The encoder reports the share of the output it has written.
EncoderPercents == {40, 100}
ImageOutcomes == {"ok", "nopayload", "error"}
EncoderOutputs == {"ok", "empty", "missing"}

(***************************************************************************)
(* State.                                                                  *)
(***************************************************************************)
VARIABLES
    impl,                \* the server file that runs
    now,                 \* Date.now()
    generationProgress,  \* part_000: the progress object GET /api/progress returns
    disk,                \* the files of temp/ and videos/: path -> size
    videos,              \* the Video collection, in insertion order
    req,                 \* per request: the handler's position and locals
    search,              \* index.js: one call of searchAndDownloadMusic
    listing,             \* the last answer of GET /api/videos
    polled,              \* part_000: the last answer of GET /api/progress
    client               \* src/src/App.js: the state of VideoGenerator

vars == <<impl, now, generationProgress, disk, videos, req, search, listing, polled, client>>

IdleRequest ==
    [pc |-> "idle", prompt |-> <<>>, durationNum |-> NaN, numFrames |-> 0,
     minFrames |-> 0, i |-> 0,
     frames |-> <<>>, audioPath |-> NoPath, outputPath |-> NoPath,
     videoPath |-> NoPath, encoderPercent |-> 0, createdAt |-> 0,
     tier |-> "none", k |-> 0, queries |-> <<>>, noPayload |-> 0, res |-> NoResponse]

\* The handler has answered and returned: its locals are gone.
Ended(pc, res) == [IdleRequest EXCEPT !.pc = pc, !.res = res]

\* searchAndDownloadMusic before its call: searchResponse is the local of
\* that name (what the last answered query returned), queries the queries
\* issued so far, in order.
IdleSearch ==
    [pc |-> "idle", prompt |-> <<>>, outputPath |-> NoPath, tier |-> "none", k |-> 0,
     queries |-> <<>>, searchResponse |-> "none", searchMethod |-> "none"]

\* GET /api/progress has not answered yet.
NoPoll == [progress |-> -2, status |-> Status("", 0, 0), videoUrl |-> NoPath, error |-> NullError]

\* GET /api/videos has not answered yet.
NoListing == [code |-> 0, videos |-> << >>]

\* VideoGenerator as useState leaves it: null is "null", NoPath or 0.  sent
\* counts the submissions, awaiting says that the POST is not answered yet,
\* polls holds the request identifier of every poll that is not answered yet.
IdleClient ==
    [loading |-> FALSE, currentRequestId |-> 0, error |-> "null", progress |-> 0,
     generatedVideo |-> NoPath, isCompleted |-> FALSE, previousGenerations |-> << >>,
     sent |-> 0, awaiting |-> FALSE, polls |-> << >>]

Init ==
    /\ impl \in {"part_000", "index", "searchAndDownloadMusic"}
    /\ now = 0
    /\ generationProgress =
         [progress |-> 0, status |-> Status("", 0, 0), videoUrl |-> NoPath, error |-> NullError]
    /\ disk = [p \in {} |-> 0]
    /\ videos = << >>
    /\ req = [r \in Requests |-> IdleRequest]
    /\ search = IdleSearch
    /\ listing = NoListing
    /\ polled = NoPoll
    /\ client = IdleClient

writeFile(d, p, size) == [q \in DOMAIN d \cup {p} |-> IF q = p THEN size ELSE d[q]]
unlinkAll(d, ps) == [q \in DOMAIN d \ ps |-> d[q]]
Range(s) == {s[k] : k \in 1..Len(s)}

\* Date.now() read in a callback: since the last reading the clock has
\* advanced or it has not.
DateNow == {t \in {now, now + 1} : t <= MaxTime}

\* Request r reaches the server: the requests are numbered in the order of
\* their arrival.
Arrives(r) ==
    /\ req[r].pc = "idle"
    /\ \A q \in Requests : q < r => req[q].pc # "idle"

(***************************************************************************)
(* src/unnamed/part_000                                                    *)
(***************************************************************************)
\* The route's catch block: the error goes into the current progress object.
P_Catch(gp, error) ==
    [gp EXCEPT !.error = error, !.status = Status("Error occurred", 0, 0),
               !.progress = ErrorPercent]

\* The route after generateVideoFrames returned: the music call is issued.
P_StartMusic(gp) ==
    [gp EXCEPT !.status = Status("Generating music...", 0, 0), !.progress = MusicPercent]

\* POST /api/generate-video arrives: validation, the progress reset and
\* generateVideoFrames up to its first image call.
P_PostGenerateVideo(r, prompt, duration) ==
    /\ impl = "part_000"
    /\ Arrives(r)
    /\ LET durationNum == Number(duration)
           numFrames == FrameCount(durationNum.n)
           reset == [progress |-> 0, status |-> Status("Generating frames...", 0, 0),
                     videoUrl |-> NoPath, error |-> NullError]
       IN IF Trim(prompt) = <<>> \/ durationNum.nan
          THEN LET e == Err("Invalid prompt or duration", 0)
               IN /\ generationProgress' = P_Catch(generationProgress, e)
                  /\ req' = [req EXCEPT ![r] = Ended("failed", Respond(500, e, NoPath))]
          ELSE IF 1 <= numFrames
          THEN /\ generationProgress' = reset
               /\ req' = [req EXCEPT ![r] = [@ EXCEPT !.pc = "frames", !.prompt = prompt,
                             !.durationNum = durationNum, !.numFrames = numFrames, !.i = 1]]
          ELSE /\ generationProgress' = P_StartMusic(reset)
               /\ req' = [req EXCEPT ![r] = [@ EXCEPT !.pc = "music", !.prompt = prompt,
                             !.durationNum = durationNum, !.numFrames = numFrames, !.i = 1]]
    /\ UNCHANGED <<client, polled, listing, search, impl, now, disk, videos>>

\* generateVideoFrames: the image service answered the call for frame i.
P_ImageResponse(r, outcome, t) ==
    /\ impl = "part_000"
    /\ req[r].pc = "frames"
    /\ LET i == req[r].i
           numFrames == req[r].numFrames
           framePath == Path("frame", t, i)
           generated == [generationProgress EXCEPT
                            !.status = Status("Generated frame", i, numFrames),
                            !.progress = FramePercent(i, numFrames)]
           e == Err("Failed to generate frame", i)
       IN IF outcome = "ok"
          THEN /\ disk' = writeFile(disk, framePath, 1)
               /\ now' = t
               /\ IF i + 1 <= numFrames
                  THEN /\ generationProgress' = generated
                       /\ req' = [req EXCEPT ![r] = [@ EXCEPT !.i = i + 1,
                                     !.frames = Append(@, framePath)]]
                  ELSE /\ generationProgress' = P_StartMusic(generated)
                       /\ req' = [req EXCEPT ![r] = [@ EXCEPT !.pc = "music", !.i = i + 1,
                                     !.frames = Append(@, framePath)]]
          ELSE /\ disk' = disk
               /\ now' = now
               /\ generationProgress' = P_Catch(generationProgress, e)
               /\ req' = [req EXCEPT ![r] = Ended("failed", Respond(500, e, NoPath))]
    /\ UNCHANGED <<client, polled, listing, search, impl, videos>>

\* A route that goes on to the encoder without audio when the music call
\* has failed.
P_MusicResponse_Muted(r, ok, t) ==
    /\ impl = "part_000"
    /\ req[r].pc = "music"
    /\ LET outputPath == Path("music", t, 0)
       IN /\ disk' = IF ok THEN writeFile(disk, outputPath, 1) ELSE disk
          /\ now' = t
          /\ generationProgress' = [generationProgress EXCEPT
                !.status = Status("Creating final video...", 0, 0),
                !.progress = CreatingPercent]
          /\ req' = [req EXCEPT ![r] = [@ EXCEPT !.pc = "encode",
                        !.audioPath = IF ok THEN outputPath ELSE NoPath,
                        !.outputPath = Path("video", t, 0)]]
    /\ UNCHANGED <<client, polled, listing, search, impl, videos>>

\* generateMusicFromPrompt: the music service answered; on success the audio
\* is written and createVideo starts the encoder.
P_MusicResponse(r, ok, t) ==
    /\ impl = "part_000"
    /\ req[r].pc = "music"
    /\ LET outputPath == Path("music", t, 0)
           e == Err("Music generation failed", 0)
       IN IF ok
          THEN /\ disk' = writeFile(disk, outputPath, 1)
               /\ now' = t
               /\ generationProgress' = [generationProgress EXCEPT
                     !.status = Status("Creating final video...", 0, 0),
                     !.progress = CreatingPercent]
               /\ req' = [req EXCEPT ![r] = [@ EXCEPT !.pc = "encode",
                             !.audioPath = outputPath,
                             !.outputPath = Path("video", t, 0)]]
          ELSE /\ disk' = disk
               /\ now' = now
               /\ generationProgress' = P_Catch(generationProgress, e)
               /\ req' = [req EXCEPT ![r] = Ended("failed", Respond(500, e, NoPath))]
    /\ UNCHANGED <<client, polled, listing, search, impl, videos>>

\* A progress event that is still delivered after the encoder's end.
P_EncoderProgress_Late(r, percent) ==
    /\ impl = "part_000"
    /\ req[r].pc \in {"encode", "save"}
    /\ percent >= req[r].encoderPercent
    /\ generationProgress' = [generationProgress EXCEPT
          !.status = Status("Encoding video", percent, 0),
          !.progress = EncodingPercent(percent)]
    /\ req' = [req EXCEPT ![r] = [@ EXCEPT !.encoderPercent = percent]]
    /\ UNCHANGED <<client, polled, listing, search, impl, now, disk, videos>>

\* createVideo on('progress'): the encoder reports its percent, which never
\* goes back during one encoding.
P_EncoderProgress(r, percent) ==
    /\ impl = "part_000"
    /\ req[r].pc = "encode"
    /\ percent >= req[r].encoderPercent
    /\ generationProgress' = [generationProgress EXCEPT
          !.status = Status("Encoding video", percent, 0),
          !.progress = EncodingPercent(percent)]
    /\ req' = [req EXCEPT ![r] = [@ EXCEPT !.encoderPercent = percent]]
    /\ UNCHANGED <<client, polled, listing, search, impl, now, disk, videos>>

\* What the encoder left at its output path when it reported the end.
encoderWrites(d, outputPath, output) ==
    IF output = "missing" THEN d
    ELSE writeFile(d, outputPath, IF output = "ok" THEN 1 ELSE 0)

\* The route after createVideo resolved: the record is built and saved.
P_Finalize(gp) ==
    [gp EXCEPT !.status = Status("Finalizing...", 0, 0), !.progress = FinalizingPercent]

\* createVideo on('end'): the encoder is done, whatever it wrote.
P_EncoderEnd(r, output, t) ==
    /\ impl = "part_000"
    /\ req[r].pc = "encode"
    /\ disk' = encoderWrites(disk, req[r].outputPath, output)
    /\ now' = t
    /\ generationProgress' = P_Finalize(generationProgress)
    /\ req' = [req EXCEPT ![r] = [@ EXCEPT !.pc = "save", !.videoPath = req[r].outputPath,
                  !.createdAt = t]]
    /\ UNCHANGED <<client, polled, listing, search, impl, videos>>

\* createVideo on('error')
P_EncoderError(r) ==
    /\ impl = "part_000"
    /\ req[r].pc = "encode"
    /\ LET e == Err("Failed to create video", 0)
       IN /\ generationProgress' = P_Catch(generationProgress, e)
          /\ req' = [req EXCEPT ![r] = Ended("failed", Respond(500, e, NoPath))]
    /\ UNCHANGED <<client, polled, listing, search, impl, now, disk, videos>>

\* new Video({prompt, videoUrl, duration, hasAudio: true}), createdAt by default
NewVideo(r, videoUrl) ==
    [by |-> r, prompt |-> Raw(req[r].prompt), videoUrl |-> videoUrl,
     duration |-> req[r].durationNum.n, createdAt |-> req[r].createdAt, hasAudio |-> TRUE]

\* A save that reports success and inserts nothing.
save_Lost(collection, video) == collection

\* video.save(): the record is inserted into the collection.
save(collection, video) == Append(collection, video)

\* video.save() answered; on success the temporary files are deleted next.
P_SaveResponse(r, ok) ==
    /\ impl = "part_000"
    /\ req[r].pc = "save"
    /\ LET e == Err("Save failed", 0)
       IN IF ok
          THEN /\ videos' = save(videos, NewVideo(r, VideoUrl(req[r].videoPath)))
               /\ generationProgress' = generationProgress
               /\ req' = [req EXCEPT ![r] = [@ EXCEPT !.pc = "cleanup"]]
          ELSE /\ videos' = videos
               /\ generationProgress' = P_Catch(generationProgress, e)
               /\ req' = [req EXCEPT ![r] = Ended("failed", Respond(500, e, NoPath))]
    /\ UNCHANGED <<client, polled, listing, search, impl, now, disk>>

\* The files the success path deletes: every frame and the audio file.
TempFiles(r) == Range(req[r].frames) \cup {req[r].audioPath}

\* A cleanup whose failed unlink rejects Promise.all and lands in the
\* route's catch block.
P_CleanupDone_Escalates(r, kept) ==
    /\ impl = "part_000"
    /\ req[r].pc = "cleanup"
    /\ disk' = unlinkAll(disk, TempFiles(r) \ kept)
    /\ LET videoUrl == VideoUrl(req[r].videoPath)
           e == Err("Unlink failed", 0)
       IN IF kept = {}
          THEN /\ generationProgress' =
                     [progress |-> CompletePercent, status |-> Status("Complete!", 0, 0),
                      videoUrl |-> videoUrl, error |-> NullError]
               /\ req' = [req EXCEPT ![r] = Ended("done", Respond(200, NullError, videoUrl))]
          ELSE /\ generationProgress' = P_Catch(generationProgress, e)
               /\ req' = [req EXCEPT ![r] = Ended("failed", Respond(500, e, NoPath))]
    /\ UNCHANGED <<client, polled, listing, search, impl, now, videos>>

\* Promise.all of the unlinks settled: a failed unlink is logged, its file
\* stays (kept); then the progress object is replaced and the answer sent.
P_CleanupDone(r, kept) ==
    /\ impl = "part_000"
    /\ req[r].pc = "cleanup"
    /\ disk' = unlinkAll(disk, TempFiles(r) \ kept)
    /\ LET videoUrl == VideoUrl(req[r].videoPath)
       IN /\ generationProgress' =
                [progress |-> CompletePercent, status |-> Status("Complete!", 0, 0),
                 videoUrl |-> videoUrl, error |-> NullError]
          /\ req' = [req EXCEPT ![r] = Ended("done", Respond(200, NullError, videoUrl))]
    /\ UNCHANGED <<client, polled, listing, search, impl, now, videos>>

RECURSIVE SubsetsUpTo(_, _)
SubsetsUpTo(S, n) ==
    IF n = 0 THEN {{}}
    ELSE LET smaller == SubsetsUpTo(S, n - 1)
         IN smaller \cup {T \cup {x} : T \in smaller, x \in S}

\* The files whose unlink fails, among those still there.
UnlinkFailures(r) == SubsetsUpTo(TempFiles(r) \cap DOMAIN disk, MaxUnlinkFailures)

(***************************************************************************)
(* src/index.js: POST /api/generate-video                                  *)
(***************************************************************************)
\* The route's catch block: res.status(500).json({error: error.message}).
I_Catch(error) == Ended("failed", Respond(500, error, NoPath))

\* The keywords getAudioFromFreesound takes from the prompt: split on
\* /[\s.,!?]+/, longer than 3 characters, four words dropped.
I_KeepKeyword(word) == Len(word) > 3 /\ ~Includes(<<"with", "and", "the", "for">>, word)

I_Keywords(prompt) == SelectSeq(Split(toLowerCase(prompt), {"s"}), I_KeepKeyword)

\* `${keyword} music background`
KeywordQuery(keyword) == keyword \o " music background"

\* getAudioFromFreesound issues the query at position k of a tier.
I_IssueQuery(rq, tier, k) ==
    [rq EXCEPT !.pc = "search", !.tier = tier, !.k = k,
               !.queries = Append(@, IF tier = "keyword"
                                     THEN KeywordQuery(I_Keywords(rq.prompt)[k])
                                     ELSE DEFAULT_CATEGORIES[k])]

\* A route that does not wait for the audio before it starts the encoder.
I_AfterFrames_NoAudio(rq) ==
    IF Len(rq.frames) = 0
    THEN I_Catch(Err("Failed to generate any frames", 0))
    ELSE [rq EXCEPT !.pc = "encode", !.outputPath = Path("video", 0, 0)]

\* The route after generateVideoFrames ended its loop: no frame at all is
\* an error, otherwise getAudioFromFreesound starts with its first query.
I_AfterFrames(rq) ==
    IF Len(rq.frames) = 0
    THEN I_Catch(Err("Failed to generate any frames", 0))
    ELSE IF Len(I_Keywords(rq.prompt)) >= 1
    THEN I_IssueQuery(rq, "keyword", 1)
    ELSE I_IssueQuery(rq, "default", 1)

\* generateVideoFrames: the loop's i++ and test, then the next image call.
I_NextFrame(rq) ==
    LET next == [rq EXCEPT !.i = @ + 1]
    IN IF next.i < next.minFrames THEN [next EXCEPT !.pc = "frames"] ELSE I_AfterFrames(next)

\* const minFrames = Math.max(4, numFrames)
minFrames(numFrames) == Max(4, numFrames)

\* POST /api/generate-video arrives: validation, then generateVideoFrames up
\* to its first image call.
I_PostGenerateVideo(r, prompt, duration) ==
    /\ impl = "index"
    /\ Arrives(r)
    /\ LET durationNum == Number(duration)
       IN IF Trim(prompt) = <<>> \/ durationNum.nan
          THEN req' = [req EXCEPT ![r] =
                          Ended("rejected", Respond(400, Err("Invalid prompt or duration", 0), NoPath))]
          ELSE req' = [req EXCEPT ![r] = [@ EXCEPT !.pc = "frames", !.prompt = prompt,
                          !.durationNum = durationNum,
                          !.numFrames = FrameCount(durationNum.n),
                          !.minFrames = minFrames(FrameCount(durationNum.n)), !.i = 0]]
    /\ UNCHANGED <<client, polled, listing, search, impl, now, generationProgress, disk, videos>>

\* generateVideoFrames: the image service answered the call for frame i; a
\* response without an image is passed over.
I_ImageResponse(r, outcome) ==
    /\ impl = "index"
    /\ req[r].pc = "frames"
    /\ LET imagePath == Path("frame", 0, req[r].i)
       IN CASE outcome = "ok" ->
                 /\ disk' = writeFile(disk, imagePath, 1)
                 /\ req' = [req EXCEPT ![r] = [@ EXCEPT !.pc = "delay",
                               !.frames = Append(@, imagePath)]]
            [] outcome = "nopayload" ->
                 /\ req[r].noPayload < MaxNoPayload
                 /\ disk' = disk
                 /\ req' = [req EXCEPT ![r] = I_NextFrame([@ EXCEPT !.noPayload = @ + 1])]
            [] OTHER ->
                 /\ disk' = disk
                 /\ req' = [req EXCEPT ![r] = I_Catch(Err("Image request failed", req[r].i))]
    /\ UNCHANGED <<client, polled, listing, search, impl, now, generationProgress, videos>>

\* generateVideoFrames: the 2000 ms delay after a written frame is over.
I_DelayElapsed(r) ==
    /\ impl = "index"
    /\ req[r].pc = "delay"
    /\ req' = [req EXCEPT ![r] = I_NextFrame(@)]
    /\ UNCHANGED <<client, polled, listing, search, impl, now, generationProgress, disk, videos>>

\* An audio search that goes on to the encoder without audio once every
\* query has returned no result.
I_SearchResponse_Silent(r, outcome) ==
    /\ impl = "index"
    /\ req[r].pc = "search"
    /\ LET rq == req[r]
           failed == I_Catch(Err("Failed to get audio", 0))
       IN req' = [req EXCEPT ![r] =
             CASE outcome = "hit" -> [rq EXCEPT !.pc = "download"]
               [] outcome = "error" -> failed
               [] OTHER ->
                    IF rq.tier = "keyword"
                    THEN IF rq.k + 1 <= Len(I_Keywords(rq.prompt))
                         THEN I_IssueQuery(rq, "keyword", rq.k + 1)
                         ELSE I_IssueQuery(rq, "default", 1)
                    ELSE IF rq.k + 1 <= Len(DEFAULT_CATEGORIES)
                         THEN I_IssueQuery(rq, "default", rq.k + 1)
                         ELSE [rq EXCEPT !.pc = "encode", !.outputPath = Path("video", 0, 0)]]
    /\ UNCHANGED <<client, polled, listing, search, impl, now, generationProgress, disk, videos>>

\* A query that raised an error counts as a query without results.
I_SearchResponse_Persistent(r, outcome) ==
    /\ impl = "index"
    /\ req[r].pc = "search"
    /\ LET rq == req[r]
           failed == I_Catch(Err("Failed to get audio", 0))
       IN req' = [req EXCEPT ![r] =
             CASE outcome = "hit" -> [rq EXCEPT !.pc = "download"]
               [] OTHER ->
                    IF rq.tier = "keyword"
                    THEN IF rq.k + 1 <= Len(I_Keywords(rq.prompt))
                         THEN I_IssueQuery(rq, "keyword", rq.k + 1)
                         ELSE I_IssueQuery(rq, "default", 1)
                    ELSE IF rq.k + 1 <= Len(DEFAULT_CATEGORIES)
                         THEN I_IssueQuery(rq, "default", rq.k + 1)
                         ELSE failed]
    /\ UNCHANGED <<client, polled, listing, search, impl, now, generationProgress, disk, videos>>

\* getAudioFromFreesound: the sound library answered the query; every error
\* is caught and makes the function return null.
I_SearchResponse(r, outcome) ==
    /\ impl = "index"
    /\ req[r].pc = "search"
    /\ LET rq == req[r]
           failed == I_Catch(Err("Failed to get audio", 0))
       IN req' = [req EXCEPT ![r] =
             CASE outcome = "hit" -> [rq EXCEPT !.pc = "download"]
               [] outcome = "error" -> failed
               [] OTHER ->
                    IF rq.tier = "keyword"
                    THEN IF rq.k + 1 <= Len(I_Keywords(rq.prompt))
                         THEN I_IssueQuery(rq, "keyword", rq.k + 1)
                         ELSE I_IssueQuery(rq, "default", 1)
                    ELSE IF rq.k + 1 <= Len(DEFAULT_CATEGORIES)
                         THEN I_IssueQuery(rq, "default", rq.k + 1)
                         ELSE failed]
    /\ UNCHANGED <<client, polled, listing, search, impl, now, generationProgress, disk, videos>>

\* getAudioFromFreesound: the preview download answered; on success the
\* audio is written and createVideo starts the encoder.
I_DownloadResponse(r, ok, t) ==
    /\ impl = "index"
    /\ req[r].pc = "download"
    /\ LET audioPath == Path("audio", t, 0)
       IN IF ok
          THEN /\ disk' = writeFile(disk, audioPath, 1)
               /\ now' = t
               /\ req' = [req EXCEPT ![r] = [@ EXCEPT !.pc = "encode",
                             !.audioPath = audioPath, !.outputPath = Path("video", t, 0)]]
          ELSE /\ disk' = disk
               /\ now' = now
               /\ req' = [req EXCEPT ![r] = I_Catch(Err("Failed to get audio", 0))]
    /\ UNCHANGED <<client, polled, listing, search, impl, generationProgress, videos>>

\* Math.floor in the place of Math.ceil.
FrameSlice_Floor(duration, frames) == duration \div Len(frames)

\* createVideo: every frame is an input shown for
\* Math.ceil(duration / frames.length) seconds, and the frames are
\* concatenated.
FrameSlice(duration, frames) == Ceil(duration, Len(frames))
PlaybackDuration(duration, frames) == Len(frames) * FrameSlice(duration, frames)

\* createVideo on('end'): the output file is checked by createVideo and by
\* the route, then the record is built and saved.
I_EncoderEnd(r, output, t) ==
    /\ impl = "index"
    /\ req[r].pc = "encode"
    /\ LET outputPath == req[r].outputPath
           written == encoderWrites(disk, outputPath, output)
       IN /\ disk' = written
          /\ IF outputPath \notin DOMAIN written
             THEN /\ now' = now
                  /\ req' = [req EXCEPT ![r] =
                                I_Catch(Err("Failed to verify video file", 0))]
             ELSE IF written[outputPath] > 0
             THEN /\ now' = t
                  /\ req' = [req EXCEPT ![r] = [@ EXCEPT !.pc = "save",
                                !.videoPath = outputPath, !.createdAt = t]]
             ELSE /\ now' = now
                  /\ req' = [req EXCEPT ![r] = I_Catch(Err("Video file is empty", 0))]
    /\ UNCHANGED <<client, polled, listing, search, impl, generationProgress, videos>>

\* createVideo on('error')
I_EncoderError(r) ==
    /\ impl = "index"
    /\ req[r].pc = "encode"
    /\ req' = [req EXCEPT ![r] = I_Catch(Err("Encoder failed", 0))]
    /\ UNCHANGED <<client, polled, listing, search, impl, now, generationProgress, disk, videos>>

\* video.save() answered; on success the temporary files are deleted next.
I_SaveResponse(r, ok) ==
    /\ impl = "index"
    /\ req[r].pc = "save"
    /\ IF ok
       THEN /\ videos' = save(videos, NewVideo(r, VideoUrl(req[r].videoPath)))
            /\ req' = [req EXCEPT ![r] = [@ EXCEPT !.pc = "cleanup"]]
       ELSE /\ videos' = videos
            /\ req' = [req EXCEPT ![r] = I_Catch(Err("Save failed", 0))]
    /\ UNCHANGED <<client, polled, listing, search, impl, now, generationProgress, disk>>

\* Promise.all of the unlinks settled (a failed unlink is logged, its file
\* stays); the answer carries the saved record.
I_CleanupDone(r, kept) ==
    /\ impl = "index"
    /\ req[r].pc = "cleanup"
    /\ disk' = unlinkAll(disk, TempFiles(r) \ kept)
    /\ req' = [req EXCEPT ![r] = Ended("done", Respond(200, NullError, VideoUrl(req[r].videoPath)))]
    /\ UNCHANGED <<client, polled, listing, search, impl, now, generationProgress, videos>>

SearchOutcomes == {"hit", "empty", "error"}

I_Step(r) ==
    \/ \E outcome \in ImageOutcomes : I_ImageResponse(r, outcome)
    \/ I_DelayElapsed(r)
    \/ \E outcome \in SearchOutcomes : I_SearchResponse(r, outcome)
    \/ \E ok \in BOOLEAN, t \in DateNow : I_DownloadResponse(r, ok, t)
    \/ \E output \in EncoderOutputs, t \in DateNow : I_EncoderEnd(r, output, t)
    \/ I_EncoderError(r)
    \/ \E ok \in BOOLEAN : I_SaveResponse(r, ok)
    \/ \E kept \in UnlinkFailures(r) : I_CleanupDone(r, kept)

(***************************************************************************)
(* src/index.js: searchAndDownloadMusic                                    *)
(***************************************************************************)
S_IssueQuery(sr, tier, k, query) ==
    [sr EXCEPT !.pc = "search", !.tier = tier, !.k = k, !.queries = Append(@, query)]

\* The code after the keyword block: with no result yet the default
\* categories are tried, otherwise the preview is downloaded.
S_AfterKeywords(sr) ==
    IF sr.searchResponse = "empty"
    THEN S_IssueQuery(sr, "default", 1, DEFAULT_CATEGORIES[1])
    ELSE [sr EXCEPT !.pc = "download"]

\* The code after the direct query answered.
S_AfterDirect(sr) ==
    IF sr.searchResponse = "empty" /\ Len(extractKeywords(sr.prompt)) >= 1
    THEN S_IssueQuery(sr, "keyword", 1, KeywordQuery(extractKeywords(sr.prompt)[1]))
    ELSE S_AfterKeywords(sr)

\* The keyword loop without its break.
S_KeywordLoop_NoBreak(sr) ==
    IF sr.k + 1 <= Len(extractKeywords(sr.prompt))
    THEN S_IssueQuery(sr, "keyword", sr.k + 1, KeywordQuery(extractKeywords(sr.prompt)[sr.k + 1]))
    ELSE S_AfterKeywords(sr)

\* The keyword loop after a keyword query answered: break on a result.
S_KeywordLoop(sr) ==
    IF sr.searchResponse = "empty" /\ sr.k + 1 <= Len(extractKeywords(sr.prompt))
    THEN S_IssueQuery(sr, "keyword", sr.k + 1, KeywordQuery(extractKeywords(sr.prompt)[sr.k + 1]))
    ELSE S_AfterKeywords(sr)

\* The default loop after a category query answered: break on a result,
\* and after the last category with no result the function throws.
S_DefaultLoop(sr) ==
    IF sr.searchResponse = "empty"
    THEN IF sr.k + 1 <= Len(DEFAULT_CATEGORIES)
         THEN S_IssueQuery(sr, "default", sr.k + 1, DEFAULT_CATEGORIES[sr.k + 1])
         ELSE [sr EXCEPT !.pc = "threw"]
    ELSE [sr EXCEPT !.pc = "download"]

\* searchAndDownloadMusic(prompt, outputPath) is called: the direct query.
S_Call(prompt) ==
    /\ impl = "searchAndDownloadMusic"
    /\ search.pc = "idle"
    /\ search' = S_IssueQuery([search EXCEPT !.prompt = prompt,
                                  !.outputPath = Path("music", 0, 0)],
                              "direct", 0, Raw(prompt))
    /\ UNCHANGED <<client, polled, listing, impl, now, generationProgress, disk, videos, req>>

\* The sound library answered the query issued last.
S_SearchResponse(outcome) ==
    /\ impl = "searchAndDownloadMusic"
    /\ search.pc = "search"
    /\ LET sr == [search EXCEPT !.searchResponse = outcome]
       IN search' =
             CASE outcome = "error" -> [sr EXCEPT !.pc = "threw"]
               [] sr.tier = "direct" -> S_AfterDirect(sr)
               [] sr.tier = "keyword" -> S_KeywordLoop(sr)
               [] OTHER -> S_DefaultLoop(sr)
    /\ UNCHANGED <<client, polled, listing, impl, now, generationProgress, disk, videos, req>>

\* searchMethod of the returned object, from the query of the last response.
searchMethod(prompt, query) ==
    IF Raw(prompt) = query THEN "direct"
    ELSE IF Includes(DEFAULT_CATEGORIES, query) THEN "default"
    ELSE "keyword"

\* The preview download answered: the file is written and the result returned.
S_DownloadResponse(ok) ==
    /\ impl = "searchAndDownloadMusic"
    /\ search.pc = "download"
    /\ IF ok
       THEN /\ disk' = writeFile(disk, search.outputPath, 1)
            /\ search' = [search EXCEPT !.pc = "returned",
                  !.searchMethod = searchMethod(search.prompt, search.queries[Len(search.queries)])]
       ELSE /\ disk' = disk
            /\ search' = [search EXCEPT !.pc = "threw"]
    /\ UNCHANGED <<client, polled, listing, impl, now, generationProgress, videos, req>>

S_Step ==
    \/ \E prompt \in SearchPrompts : S_Call(prompt)
    \/ \E outcome \in SearchOutcomes : S_SearchResponse(outcome)
    \/ \E ok \in BOOLEAN : S_DownloadResponse(ok)

(***************************************************************************)
(* src/unnamed/part_000: GET /api/progress                                 *)
(***************************************************************************)
\* A poll that hands the object out and puts a fresh one in its place.
G_GetProgress_Resets ==
    /\ impl = "part_000"
    /\ polled' = generationProgress
    /\ generationProgress' =
         [progress |-> 0, status |-> Status("", 0, 0), videoUrl |-> NoPath, error |-> NullError]
    /\ UNCHANGED <<client, impl, now, disk, videos, req, search, listing>>

\* res.json(generationProgress)
G_GetProgress ==
    /\ impl = "part_000"
    /\ polled' = generationProgress
    /\ UNCHANGED <<client, impl, now, generationProgress, disk, videos, req, search, listing>>

\* Two requests and the polls of a client: the image calls are answered
\* with an image or fail, the calls behind them are answered.
InitPoll == Init /\ impl = "part_000"

NextPoll ==
    \/ \E r \in Requests, prompt \in PromptInputs :
          P_PostGenerateVideo(r, prompt, [kind |-> "number", n |-> 7])
    \/ \E r \in Requests, outcome \in {"ok", "error"}, t \in DateNow :
          P_ImageResponse(r, outcome, t)
    \/ \E r \in Requests, t \in DateNow : P_MusicResponse(r, TRUE, t)
    \/ \E r \in Requests : P_EncoderProgress(r, 100)
    \/ \E r \in Requests, t \in DateNow : P_EncoderEnd(r, "ok", t)
    \/ \E r \in Requests : P_SaveResponse(r, TRUE)
    \/ \E r \in Requests : P_CleanupDone(r, {})
    \/ G_GetProgress

SpecPoll == InitPoll /\ [][NextPoll]_vars

(***************************************************************************)
(* GET /api/videos, the same in both servers.                              *)
(***************************************************************************)
Min(a, b) == IF a <= b THEN a ELSE b

\* A sort that puts the oldest record first.
InsertByCreatedAt_Ascending(sorted, video) ==
    LET before == SelectSeq(sorted, LAMBDA v : v.createdAt <= video.createdAt)
        after == SelectSeq(sorted, LAMBDA v : v.createdAt > video.createdAt)
    IN before \o <<video>> \o after

\* .sort({createdAt: -1}): the record goes behind the records that are as
\* recent as it is or more recent.
InsertByCreatedAt(sorted, video) ==
    LET before == SelectSeq(sorted, LAMBDA v : v.createdAt >= video.createdAt)
        after == SelectSeq(sorted, LAMBDA v : v.createdAt < video.createdAt)
    IN before \o <<video>> \o after

RECURSIVE sort(_)
sort(scanned) ==
    IF scanned = <<>> THEN <<>>
    ELSE InsertByCreatedAt(sort(SubSeq(scanned, 1, Len(scanned) - 1)), scanned[Len(scanned)])

\* .limit(n)
limit(sorted, n) == SubSeq(sorted, 1, Min(n, Len(sorted)))

ListLimit == 10

\* The order in which the database scans the collection decides the order
\* of records with the same createdAt: it is not fixed by the query.
ScanOrders(collection) == {collection, Reverse(collection)}

\* GET /api/videos: Video.find().sort({createdAt: -1}).limit(10) answered,
\* with the records or with an error.
G_GetVideos(ok, scanned) ==
    /\ impl \in {"part_000", "index"}
    /\ listing' = IF ok THEN [code |-> 200, videos |-> limit(sort(scanned), ListLimit)]
                  ELSE [code |-> 500, videos |-> << >>]
    /\ UNCHANGED <<client, polled, impl, now, generationProgress, disk, videos, req, search>>

\* The collection holds the records of earlier runs of the server.
EarlierVideo(k) ==
    [by |-> 0, prompt |-> Raw(TheLake), videoUrl |-> Path("url", (k \div 3) - 4, k),
     duration |-> 7, createdAt |-> (k \div 3) - 4, hasAudio |-> TRUE]

EarlierVideos(n) == [k \in 1..n |-> EarlierVideo(k)]

EarlierCounts == {0, 9, 10}

InitList ==
    /\ impl \in {"part_000", "index"}
    /\ now = 0
    /\ generationProgress =
         [progress |-> 0, status |-> Status("", 0, 0), videoUrl |-> NoPath, error |-> NullError]
    /\ disk = [p \in {} |-> 0]
    /\ videos \in {EarlierVideos(n) : n \in EarlierCounts}
    /\ req = [r \in Requests |-> IdleRequest]
    /\ search = IdleSearch
    /\ listing = NoListing
    /\ polled = NoPoll
    /\ client = IdleClient

P_Step(r) ==
    \/ \E outcome \in ImageOutcomes, t \in DateNow : P_ImageResponse(r, outcome, t)
    \/ \E ok \in BOOLEAN, t \in DateNow : P_MusicResponse(r, ok, t)
    \/ \E percent \in EncoderPercents : P_EncoderProgress(r, percent)
    \/ \E output \in EncoderOutputs, t \in DateNow : P_EncoderEnd(r, output, t)
    \/ P_EncoderError(r)
    \/ \E ok \in BOOLEAN : P_SaveResponse(r, ok)
    \/ \E kept \in UnlinkFailures(r) : P_CleanupDone(r, kept)

Next ==
    \/ \E r \in Requests, prompt \in PromptInputs, duration \in DurationInputs :
          P_PostGenerateVideo(r, prompt, duration)
    \/ \E r \in Requests : P_Step(r)
    \/ \E r \in Requests, prompt \in PromptInputs, duration \in DurationInputs :
          I_PostGenerateVideo(r, prompt, duration)
    \/ \E r \in Requests : I_Step(r)
    \/ S_Step

Spec == Init /\ [][Next]_vars

\* One request alone, with every duration the form of the client offers.
InitSolo == Init /\ impl \in {"part_000", "index"}

NextSolo ==
    \/ \E duration \in FormDurationInputs : P_PostGenerateVideo(1, TheLake, duration)
    \/ P_Step(1)
    \/ \E duration \in FormDurationInputs : I_PostGenerateVideo(1, TheLake, duration)
    \/ I_Step(1)

SpecSolo == InitSolo /\ [][NextSolo]_vars

\* One request alone, with any body.
NextBody ==
    \/ \E prompt \in PromptInputs, duration \in BodyDurationInputs :
          P_PostGenerateVideo(1, prompt, duration)
    \/ P_Step(1)
    \/ \E prompt \in PromptInputs, duration \in BodyDurationInputs :
          I_PostGenerateVideo(1, prompt, duration)
    \/ I_Step(1)

SpecBody == InitSolo /\ [][NextBody]_vars

\* What the code makes sure will happen: the music call of part_000 carries
\* timeout: 600000, so it is answered or fails; the timer of the delay
\* between two frames fires; the unlinks of the local files settle.  No
\* other call carries a timeout: nothing makes its answer come.
Timeouts ==
    /\ WF_vars(\E ok \in BOOLEAN, t \in DateNow : P_MusicResponse(1, ok, t))
    /\ WF_vars(I_DelayElapsed(1))
    /\ WF_vars(\E kept \in UnlinkFailures(1) : P_CleanupDone(1, kept))
    /\ WF_vars(\E kept \in UnlinkFailures(1) : I_CleanupDone(1, kept))

SpecTimeouts == InitSolo /\ [][NextBody]_vars /\ Timeouts

\* createVideo is called by the route of index.js: the request holds n
\* frames, 1 <= n <= minFrames, one for each image response that carried an
\* image, its audio file, and a positive duration.
MaxFrames == 15

AssembleRequest(d, n) ==
    [IdleRequest EXCEPT
        !.pc = "encode", !.prompt = TheLake, !.durationNum = Num(d),
        !.numFrames = FrameCount(d), !.minFrames = minFrames(FrameCount(d)),
        !.i = minFrames(FrameCount(d)),
        !.frames = [k \in 1..n |-> Path("frame", 0, k - 1)],
        !.noPayload = minFrames(FrameCount(d)) - n,
        !.audioPath = Path("audio", 0, 0), !.outputPath = Path("video", 0, 0),
        !.tier = "keyword", !.k = 1, !.queries = <<KeywordQuery("lake")>>]

InitAssemble ==
    /\ impl = "index"
    /\ now = 0
    /\ generationProgress =
         [progress |-> 0, status |-> Status("", 0, 0), videoUrl |-> NoPath, error |-> NullError]
    /\ videos = << >>
    /\ search = IdleSearch
    /\ listing = NoListing
    /\ polled = NoPoll
    /\ client = IdleClient
    /\ \E d \in 1..MaxDuration, n \in 1..MaxFrames :
          /\ n <= minFrames(FrameCount(d))
          /\ req = [r \in Requests |-> IF r = 1 THEN AssembleRequest(d, n) ELSE IdleRequest]
          /\ disk = [p \in Range(AssembleRequest(d, n).frames) \cup {Path("audio", 0, 0)} |-> 1]

NextAssemble ==
    \/ \E output \in EncoderOutputs, t \in DateNow : I_EncoderEnd(1, output, t)
    \/ I_EncoderError(1)
    \/ \E ok \in BOOLEAN : I_SaveResponse(1, ok)
    \/ \E kept \in UnlinkFailures(1) : I_CleanupDone(1, kept)

SpecAssemble == InitAssemble /\ [][NextAssemble]_vars

\* Requests that save their records while GET /api/videos reads the
\* collection: the external services answer every call before the save, so
\* that every request comes to its save, which succeeds or fails.
NextList ==
    \/ \E r \in Requests : P_PostGenerateVideo(r, TheLake, [kind |-> "number", n |-> 7])
    \/ \E r \in Requests, t \in DateNow : P_ImageResponse(r, "ok", t)
    \/ \E r \in Requests, t \in DateNow : P_MusicResponse(r, TRUE, t)
    \/ \E r \in Requests, t \in DateNow : P_EncoderEnd(r, "ok", t)
    \/ \E r \in Requests, ok \in BOOLEAN : P_SaveResponse(r, ok)
    \/ \E r \in Requests : P_CleanupDone(r, {})
    \/ \E r \in Requests : I_PostGenerateVideo(r, TheLake, [kind |-> "number", n |-> 7])
    \/ \E r \in Requests : I_ImageResponse(r, "ok")
    \/ \E r \in Requests : I_DelayElapsed(r)
    \/ \E r \in Requests : I_SearchResponse(r, "hit")
    \/ \E r \in Requests, t \in DateNow : I_DownloadResponse(r, TRUE, t)
    \/ \E r \in Requests, t \in DateNow : I_EncoderEnd(r, "ok", t)
    \/ \E r \in Requests, ok \in BOOLEAN : I_SaveResponse(r, ok)
    \/ \E r \in Requests : I_CleanupDone(r, {})
    \/ \E ok \in BOOLEAN, scanned \in ScanOrders(videos) : G_GetVideos(ok, scanned)

SpecList == InitList /\ [][NextList]_vars

\* One call of searchAndDownloadMusic.
InitSearch == Init /\ impl = "searchAndDownloadMusic"

SpecSearch == InitSearch /\ [][S_Step]_vars

(***************************************************************************)
(* src/src/App.js: VideoGenerator, the polling client                      *)
(***************************************************************************)
MaxSubmits == 2
MaxPolls == 2

\* The body the server writes to POST /api/generate-video, as the client
\* reads it: { success, videoUrl } (part_000), { success, video } (index.js)
\* or { error }.  No body has a requestId key, so data.requestId is
\* undefined (0).
ResponseBody(res) == [requestId |-> 0, videoUrl |-> res.videoUrl, error |-> res.error]

\* The bodies of a server that may name the request.
PostBodies(id) == {[requestId |-> n, videoUrl |-> NoPath, error |-> NullError] : n \in {0, id}}

\* What GET http://localhost:5001/progress/<id> can answer.
ProgressData(id) ==
    {[progress |-> CreatingPercent, videoUrl |-> NoPath],
     [progress |-> CompletePercent, videoUrl |-> NoPath],
     [progress |-> CompletePercent, videoUrl |-> Path("url", id, 0)],
     [progress |-> ErrorPercent, videoUrl |-> NoPath]}

\* The durations the client posts.
ClientDurations == {[kind |-> "number", n |-> n] : n \in {MinDuration, 10}}

newGeneration(videoUrl) == [prompt |-> TheLake, videoUrl |-> videoUrl]

RemoveAt(s, k) == SubSeq(s, 1, k - 1) \o SubSeq(s, k + 1, Len(s))

\* handleSubmit up to its fetch; the button is disabled while loading.
handleSubmit ==
    /\ ~client.loading
    /\ ~client.awaiting
    /\ client.sent < MaxSubmits
    /\ client' = [client EXCEPT !.loading = TRUE, !.progress = 0, !.isCompleted = FALSE,
                                !.generatedVideo = NoPath, !.error = "null",
                                !.currentRequestId = 0, !.sent = @ + 1, !.awaiting = TRUE]
    /\ UNCHANGED <<impl, now, generationProgress, disk, videos, req, search, listing, polled>>

\* handleSubmit from response.json() on.
C_PostResponse(data) ==
    /\ client.awaiting
    /\ IF data.requestId # 0
       THEN client' = [client EXCEPT !.awaiting = FALSE, !.currentRequestId = data.requestId]
       ELSE client' = [client EXCEPT
                          !.awaiting = FALSE,
                          !.error = "Failed to start video generation: No request ID received from server",
                          !.loading = FALSE]
    /\ UNCHANGED <<impl, now, generationProgress, disk, videos, req, search, listing, polled>>

\* The fetch of handleSubmit rejects.
C_PostFails ==
    /\ client.awaiting
    /\ client' = [client EXCEPT !.awaiting = FALSE,
                                !.error = "Failed to start video generation: Failed to fetch",
                                !.loading = FALSE]
    /\ UNCHANGED <<impl, now, generationProgress, disk, videos, req, search, listing, polled>>

\* A tick of the interval the effect sets while currentRequestId && loading:
\* the callback runs up to the fetch of checkVideoStatus.  setInterval does
\* not wait for the callback of the tick before.
C_Tick ==
    /\ client.currentRequestId # 0
    /\ client.loading
    /\ Len(client.polls) < MaxPolls
    /\ client' = [client EXCEPT !.polls = Append(@, client.currentRequestId)]
    /\ UNCHANGED <<impl, now, generationProgress, disk, videos, req, search, listing, polled>>

\* The callback of a tick from the answer of its poll on.
C_PollResponse(k, progressData) ==
    /\ k \in 1..Len(client.polls)
    /\ LET polls == RemoveAt(client.polls, k) IN
         IF progressData.progress = 100 /\ progressData.videoUrl # NoPath
         THEN client' = [client EXCEPT
                            !.polls = polls,
                            !.progress = progressData.progress,
                            !.isCompleted = TRUE,
                            !.generatedVideo = progressData.videoUrl,
                            !.loading = FALSE,
                            !.previousGenerations = <<newGeneration(progressData.videoUrl)>> \o @]
         ELSE IF progressData.progress = -1
         THEN client' = [client EXCEPT
                            !.polls = polls,
                            !.progress = progressData.progress,
                            !.error = "Video generation failed. Please try again.",
                            !.loading = FALSE]
         ELSE client' = [client EXCEPT !.polls = polls, !.progress = progressData.progress]
    /\ UNCHANGED <<impl, now, generationProgress, disk, videos, req, search, listing, polled>>

\* The poll of a tick fails: checkVideoStatus throws.
C_PollFails(k) ==
    /\ k \in 1..Len(client.polls)
    /\ client' = [client EXCEPT !.polls = RemoveAt(client.polls, k),
                                !.error = "Error checking progress: Failed to fetch",
                                !.loading = FALSE]
    /\ UNCHANGED <<impl, now, generationProgress, disk, videos, req, search, listing, polled>>

\* The client against the server of this repository: the POST of the
\* client is the request of the handler, the answer of the handler is what
\* response.json() of the client returns.
NextClient ==
    \/ handleSubmit
    \/ \E duration \in ClientDurations :
          /\ client.awaiting
          /\ client.sent \in Requests
          /\ P_PostGenerateVideo(client.sent, TheLake, duration)
    \/ \E r \in Requests : P_Step(r)
    \/ \E duration \in ClientDurations :
          /\ client.awaiting
          /\ client.sent \in Requests
          /\ I_PostGenerateVideo(client.sent, TheLake, duration)
    \/ \E r \in Requests : I_Step(r)
    \/ /\ client.sent \in Requests
       /\ req[client.sent].res # NoResponse
       /\ C_PostResponse(ResponseBody(req[client.sent].res))

SpecClient == InitSolo /\ [][NextClient]_vars

\* The client against any server at the two addresses it calls.
InitPolling ==
    /\ impl = "none"
    /\ now = 0
    /\ generationProgress =
         [progress |-> 0, status |-> Status("", 0, 0), videoUrl |-> NoPath, error |-> NullError]
    /\ disk = [p \in {} |-> 0]
    /\ videos = << >>
    /\ req = [r \in Requests |-> IdleRequest]
    /\ search = IdleSearch
    /\ listing = NoListing
    /\ polled = NoPoll
    /\ client = IdleClient

NextPolling ==
    \/ handleSubmit
    \/ \E data \in PostBodies(client.sent) : C_PostResponse(data)
    \/ C_PostFails
    \/ C_Tick
    \/ \E k \in 1..MaxPolls :
          /\ k <= Len(client.polls)
          /\ \E progressData \in ProgressData(client.polls[k]) : C_PollResponse(k, progressData)
    \/ \E k \in 1..MaxPolls : C_PollFails(k)

SpecPolling == InitPolling /\ [][NextPolling]_vars

(***************************************************************************)
(* Properties.                                                             *)
(***************************************************************************)
InFlight(r) == req[r].pc \notin {"idle", "done", "failed", "rejected"}
Alone(r) == \A q \in Requests : q # r => ~InFlight(q)

\* C1: within one run of POST /api/generate-video (no other request in
\* flight), every update of the percent made by the run before its terminal
\* value is greater than or equal to the value before it.
C1_PercentNeverDecreases ==
    [][\A r \in Requests :
          (/\ impl = "part_000"
           /\ InFlight(r) /\ Alone(r)
           /\ req'[r] # req[r]
           /\ req'[r].pc \notin {"done", "failed"})
          => generationProgress'.progress >= generationProgress.progress]_vars

\* The two shapes a run may end with.
TerminalShape(gp) ==
    \/ gp.progress = 100 /\ gp.videoUrl # NoPath /\ gp.error = NullError
    \/ gp.progress = -1 /\ gp.videoUrl = NoPath /\ gp.error # NullError

\* C2: whenever a run of POST /api/generate-video ends, accepted or not,
\* succeeding or failing, the progress state has one of the two terminal
\* shapes: (100, videoUrl set, error unset) or (-1, videoUrl unset, error set).
C2_RunEndsInTerminalShape ==
    [][\A r \in Requests :
          (/\ impl = "part_000"
           /\ req[r].pc \notin {"done", "failed"}
           /\ req'[r].pc \in {"done", "failed"})
          => TerminalShape(generationProgress')]_vars

\* C3: while request q is in flight, a step of another request r that is in
\* flight too leaves the percent, stage label, videoUrl and error reported
\* for q as they are.
C3_ProgressIsolated ==
    [][\A r, q \in Requests :
          (/\ impl = "part_000"
           /\ r # q
           /\ InFlight(q) /\ req'[q] = req[q]
           /\ InFlight(r) \/ InFlight(r)'
           /\ req'[r] # req[r])
          => generationProgress' = generationProgress]_vars

\* C4: once the progress state has reached a terminal value (percent 100 or
\* percent -1), no later step changes it.
C4_TerminalProgressIsFinal ==
    [][(impl = "part_000" /\ generationProgress.progress \in {100, -1})
          => generationProgress' = generationProgress]_vars

\* The stage of the pipeline a handler position belongs to: 0 validate
\* input, 1 generate frames, 2 acquire audio, 3 assemble video, 4 persist
\* record, 5 clean up, 6 complete, 7 failed or rejected.
Stage(pc) ==
    CASE pc = "idle" -> 0
      [] pc \in {"frames", "delay"} -> 1
      [] pc \in {"music", "search", "download"} -> 2
      [] pc = "encode" -> 3
      [] pc = "save" -> 4
      [] pc = "cleanup" -> 5
      [] pc = "done" -> 6
      [] OTHER -> 7

FramesDone(rq) ==
    IF impl = "part_000"
    THEN rq.i > rq.numFrames /\ Len(rq.frames) = Max(rq.numFrames, 0)
    ELSE rq.i >= rq.minFrames /\ Len(rq.frames) >= 1

RecordsBy(collection, r) == {k \in 1..Len(collection) : collection[k].by = r}

\* What the stages before stage b have left when b is active.
StageReady(r, rq, collection, b) ==
    /\ b >= 1 => Trim(rq.prompt) # <<>> /\ ~rq.durationNum.nan
    /\ b >= 2 => FramesDone(rq)
    /\ b >= 3 => rq.audioPath # NoPath
    /\ b >= 4 => rq.videoPath # NoPath
    /\ b >= 5 => RecordsBy(collection, r) # {}

\* C5: within one request the stages run in the order validate input,
\* generate frames, acquire audio, assemble video, persist record, clean up,
\* complete: a request moves from a stage to the next one only (a frame stage
\* with no frame to generate is passed at once), every stage finds what the
\* stages before it have produced, and a request that has ended stays ended.
C5_StagesInOrder ==
    [][\A r \in Requests :
          req'[r].pc # req[r].pc =>
             LET a == Stage(req[r].pc)
                 b == Stage(req'[r].pc)
             IN /\ a < 6
                /\ \/ b = 7
                   \/ /\ \/ b \in {a, a + 1}
                         \/ a = 0 /\ b = 2 /\ req'[r].numFrames <= 0
                      /\ b <= 5 => StageReady(r, req'[r], videos', b)]_vars

C5_Witness ==
    \E r \in Requests :
       /\ req[r].pc = "cleanup"
       /\ Len(req[r].frames) >= 1
       /\ req[r].audioPath # NoPath
       /\ RecordsBy(videos, r) # {}

\* C6: frame generation for a requested count n is all-or-nothing: once the
\* frame stage is passed, no image response without a payload was passed
\* over and the run holds at least n frames, n = ceil(duration / 2); in
\* particular the assembler is never started with fewer than n frames.
C6_FramesAllOrNothing ==
    \A r \in Requests :
       Stage(req[r].pc) \in 2..5 =>
          /\ req[r].noPayload = 0
          /\ Len(req[r].frames) >= Ceil(req[r].durationNum.n, 2)

InForm(d) == ~d.nan /\ d.n \in MinDuration..MaxDuration

HasEnded(r) == req[r].pc \in {"done", "failed", "rejected"}
SaveFailed(r) == req[r].pc = "failed" /\ req[r].res.error = Err("Save failed", 0)

\* C8 as claimed: a request persists at most one record: exactly one when
\* every stage up to assembly succeeded, none when validation, frame
\* generation, audio acquisition or assembly failed.
C8_OneRecordAfterAssembly ==
    \A r \in Requests :
       /\ Cardinality(RecordsBy(videos, r)) <= 1
       /\ HasEnded(r) =>
             IF req[r].pc = "done" \/ SaveFailed(r)
             THEN Cardinality(RecordsBy(videos, r)) = 1
             ELSE Cardinality(RecordsBy(videos, r)) = 0

\* C8 amended: a request persists at most one record: exactly one when every
\* stage up to assembly succeeded and the save of the record succeeded, none
\* when validation, frame generation, audio acquisition, assembly or the save
\* failed (and none before the save has answered).
C8_OneRecordAfterSave ==
    \A r \in Requests :
       IF req[r].pc \in {"cleanup", "done"}
       THEN Cardinality(RecordsBy(videos, r)) = 1
       ELSE Cardinality(RecordsBy(videos, r)) = 0

C8_Witness ==
    /\ \E r \in Requests : req[r].pc = "done" /\ Cardinality(RecordsBy(videos, r)) = 1
    /\ \E r \in Requests : SaveFailed(r)

TempFilesOnDisk == {p \in DOMAIN disk : p.kind \in {"frame", "music", "audio"}}

\* C9: a failing run removes the temporary frame and audio files it has
\* created: when no request is in flight and no request has completed, so
\* that every run so far has failed, no temporary file is left.
C9_FailedRunLeavesNoTempFile ==
    (/\ \A r \in Requests : ~InFlight(r) /\ req[r].pc # "done"
     /\ \E r \in Requests : req[r].pc = "failed")
    => TempFilesOnDisk = {}

IsPrefix(s, t) == Len(s) <= Len(t) /\ \A k \in 1..Len(s) : s[k] = t[k]

\* The queries of the cascade, in order: the prompt, one per extracted
\* keyword, the default categories.
CascadeQueries(prompt) ==
    <<Raw(prompt)>>
    \o [k \in 1..Len(extractKeywords(prompt)) |-> KeywordQuery(extractKeywords(prompt)[k])]
    \o DEFAULT_CATEGORIES

\* C10: searchAndDownloadMusic issues its queries in the order direct
\* prompt, each extracted keyword in extraction order, each default category
\* in list order, and issues no query once a query has returned a result.
C10_CascadeOrder ==
    [][/\ IsPrefix(search'.queries, CascadeQueries(search'.prompt))
       /\ search'.searchResponse = "hit" => search'.queries = search.queries]_vars

C10_Witness ==
    /\ search.pc = "returned"
    /\ search.tier = "keyword"
    /\ search.k = 2
    /\ Len(search.queries) = 3

\* The last default category has been queried: the audio search of request r
\* has issued every query it is going to issue.
I_LastQueryIssued(rq) ==
    rq.pc = "search" /\ rq.tier = "default" /\ rq.k = Len(DEFAULT_CATEGORIES)

\* C11: the fallback search reports failure for want of a result only after
\* the direct query, every keyword query and each of the five default
\* category queries have been issued and have returned no result: when
\* searchAndDownloadMusic throws after an empty answer, and when the audio
\* search of a request fails after its last query, the queries issued are the
\* whole cascade, the direct query first.
C11_FailureAfterWholeCascade ==
    [][/\ (search.pc = "search" /\ search'.pc = "threw" /\ search'.searchResponse = "empty")
             => search'.queries = CascadeQueries(search'.prompt)
       /\ \A r \in Requests :
             (I_LastQueryIssued(req[r]) /\ req'[r].pc = "failed")
                => /\ Raw(req[r].prompt) \in Range(req[r].queries)
                   /\ Len(req[r].queries) = Len(CascadeQueries(req[r].prompt))]_vars

\* C12: when every tier of the audio search has returned no result the audio
\* stage fails and the run ends failed: after its last query a run goes on
\* to the download of a result or fails, the encoder is started only with an
\* audio file that has been written, a record is saved only by a run that
\* holds its audio file, and a run that fails in the audio stage leaves no
\* record.
C12_NoAssemblyWithoutAudio ==
    [][\A r \in Requests :
          /\ (I_LastQueryIssued(req[r]) /\ req'[r] # req[r])
                => req'[r].pc \in {"download", "failed"}
          /\ (req[r].pc # "encode" /\ req'[r].pc = "encode")
                => /\ Stage(req[r].pc) = 2
                   /\ req'[r].audioPath # NoPath
                   /\ req'[r].audioPath \in DOMAIN disk'
                   /\ disk'[req'[r].audioPath] > 0
          /\ RecordsBy(videos', r) # RecordsBy(videos, r)
                => /\ req[r].audioPath # NoPath
                   /\ \A k \in RecordsBy(videos', r) : videos'[k].hasAudio
          /\ (Stage(req[r].pc) = 2 /\ req'[r].pc = "failed")
                => RecordsBy(videos', r) = {}]_vars

C12_Witness ==
    \E r \in Requests :
       /\ impl = "index"
       /\ req[r].pc = "failed"
       /\ req[r].res = Respond(500, Err("Failed to get audio", 0), NoPath)
       /\ RecordsBy(videos, r) = {}
       /\ \A p \in DOMAIN disk : p.kind # "audio"

\* The extractor as claimed: a token is kept when it is longer than 3
\* characters and is no stopword.
KeepLongKeyword(word) == Len(word) > 3 /\ ~Includes(commonWords, word)
KeywordsLongerThanThree(text) ==
    SelectSeq(Split(toLowerCase(text), {"s", "o"}), KeepLongKeyword)

\* C13: for every input text extractKeywords returns the lower-cased tokens,
\* split on runs of non-word characters, that are longer than 3 characters
\* and are no stopword, in the order of the text, every token of length 3
\* or less dropped: once searchAndDownloadMusic has extracted the keywords
\* of its prompt, they are those tokens and every keyword query is for one
\* of them.
C13_KeywordsLongerThanThree ==
    search.tier \in {"keyword", "default"} =>
       /\ extractKeywords(search.prompt) = KeywordsLongerThanThree(search.prompt)
       /\ \A k \in 1..Len(extractKeywords(search.prompt)) :
             Len(extractKeywords(search.prompt)[k]) > 3
       /\ \A k \in 1..Len(search.queries) :
             \/ search.queries[k] = Raw(search.prompt)
             \/ Includes(DEFAULT_CATEGORIES, search.queries[k])
             \/ \E j \in 1..Len(KeywordsLongerThanThree(search.prompt)) :
                   search.queries[k] = KeywordQuery(KeywordsLongerThanThree(search.prompt)[j])

\* What a listing of the collection has to be: at most ListLimit records
\* of the collection, none twice, the newest first, and no record left out
\* that is more recent than a listed one or that had room in the listing.
ListsMostRecent(listed, collection) ==
    /\ Len(listed) = Min(ListLimit, Len(collection))
    /\ Range(listed) \subseteq Range(collection)
    /\ \A i, j \in 1..Len(listed) :
          /\ i < j => listed[i].createdAt >= listed[j].createdAt
          /\ i # j => listed[i] # listed[j]
    /\ \A k \in 1..Len(collection) :
          collection[k] \notin Range(listed) =>
             \A i \in 1..Len(listed) : listed[i].createdAt >= collection[k].createdAt

\* C14: GET /api/videos returns at most 10 records, ordered by createdAt
\* descending, among them every one of the 10 most recent records saved so
\* far, however the read falls between the saves of the requests in flight;
\* no save takes a record out of the collection.
C14_ListingIsMostRecent ==
    [][/\ (listing' # listing /\ listing'.code = 200)
             => ListsMostRecent(listing'.videos, videos)
       /\ Range(videos) \subseteq Range(videos')
       /\ \A r \in Requests :
             (req[r].pc = "save" /\ req'[r].pc = "cleanup")
                => Cardinality(RecordsBy(videos', r)) = 1]_vars

\* The listing was read between the saves of two requests: it holds the
\* record of one, has dropped an earlier record for it, and the other
\* request has yet to save.
C14_Witness ==
    /\ listing.code = 200
    /\ Len(listing.videos) = ListLimit
    /\ Len(videos) = ListLimit + 1
    /\ \E r, q \in Requests :
          /\ r # q
          /\ req[q].pc = "save"
          /\ \E k \in RecordsBy(videos, r) : listing.videos[1] = videos[k]

\* The input of a request is valid: the prompt is not empty after trimming
\* and the duration is a positive number.
ValidInput(rq) == Trim(rq.prompt) # <<>> /\ ~rq.durationNum.nan /\ rq.durationNum.n > 0

\* C15: a request whose prompt is empty after trimming, or whose duration is
\* no number or not positive, is rejected before any stage starts: only a
\* request with a valid input gets past the validation to its first call to
\* an external service, and the step that turns a request down writes no
\* file and saves no record.
C15_InvalidInputStartsNoStage ==
    [][\A r \in Requests :
          req[r].pc = "idle" =>
             /\ InFlight(r)' => ValidInput(req'[r])
             /\ req'[r].pc \in {"rejected", "failed"} => disk' = disk /\ videos' = videos]_vars

\* C16: POST /api/generate-video answers an invalid input with HTTP 400 and
\* the failure of a pipeline stage with HTTP 500, each with a body
\* {error: message}: a request turned down by the validation, which is the
\* only way a request ends on its arrival, is answered 400 and never 500,
\* and a request that ends in a failure later on is answered 500.
C16_InvalidInputAnswered400 ==
    [][\A r \in Requests :
          (req'[r].pc # req[r].pc /\ req'[r].pc \in {"failed", "rejected"}) =>
             /\ req'[r].res.error # NullError
             /\ req'[r].res.videoUrl = NoPath
             /\ req'[r].res.code = IF req[r].pc = "idle" THEN 400 ELSE 500]_vars

\* C17: the assembler declares success only if the output file exists and is
\* not empty after the encoder's completion event: whenever a request goes on
\* from the assembly to the save of its record, the file at its video path
\* is there and has at least one byte.
C17_SuccessOnlyWithOutputFile ==
    [][\A r \in Requests :
          (req[r].pc = "encode" /\ req'[r].pc = "save") =>
             /\ req'[r].videoPath \in DOMAIN disk'
             /\ disk'[req'[r].videoPath] > 0]_vars

\* C18: for every duration in [5,30] and the frames the run holds when
\* createVideo is called, the playback duration of the assembled frames,
\* the number of frames times the slice ceil(duration / frames), is not
\* short of the requested duration and exceeds it by at most one slice.
C18_PlaybackWithinOneSlice ==
    \A r \in Requests :
       (impl = "index" /\ req[r].pc = "encode" /\ InForm(req[r].durationNum)) =>
          LET duration == req[r].durationNum.n
              total == PlaybackDuration(duration, req[r].frames)
          IN /\ total >= duration
             /\ total - duration <= FrameSlice(duration, req[r].frames)

\* The temporary files a run holds: the frames it has written and its audio.
OwnedFiles(r) == TempFiles(r) \ {NoPath}

\* C19: no two requests in flight write, read for the assembly or delete
\* the same temporary frame or audio file: the files held by two requests in
\* flight are disjoint, and every file a request in flight holds is still
\* there.
C19_TempFilesOwnedByOneRun ==
    \A r, q \in Requests :
       (r # q /\ InFlight(r) /\ InFlight(q)) =>
          /\ OwnedFiles(r) \cap OwnedFiles(q) = {}
          /\ OwnedFiles(r) \subseteq DOMAIN disk

\* The request waits for the answer of an external call of the pipeline:
\* image generation, music generation, sound-library search, preview
\* download, encoder run.
AwaitsService(r) == req[r].pc \in {"frames", "music", "search", "download", "encode"}

\* C20: every external call of the pipeline carries a timeout, so that a
\* request does not wait for an answer for ever, even when the service never
\* answers: a request that waits for an external call eventually waits no
\* longer, which it must if it is to reach its terminal outcome and send its
\* answer.
C20_NoCallWaitsForEver ==
    \A r \in Requests : AwaitsService(r) ~> ~AwaitsService(r)

\* C21: the audio stage POST /api/generate-video runs follows the cascade
\* from its first tier: the first sound-library query of a request carries
\* the raw prompt text, and a keyword query is issued only behind that
\* direct query.
C21_FirstQueryIsThePrompt ==
    \A r \in Requests :
       (impl = "index" /\ req[r].queries # <<>>) =>
          /\ req[r].queries[1] = Raw(req[r].prompt)
          /\ \A k \in 1..Len(req[r].queries) :
                (\E j \in 1..Len(I_Keywords(req[r].prompt)) :
                    req[r].queries[k] = KeywordQuery(I_Keywords(req[r].prompt)[j]))
                => k >= 2

\* C22: on a successful search the recorded searchMethod names the tier
\* whose query produced the selected result: "direct" only if the direct
\* query returned it, "keyword" only if a keyword query did, "default" only
\* if a default category did, for every prompt.
C22_SearchMethodNamesTheTier ==
    search.pc = "returned" =>
       /\ search.searchResponse = "hit"
       /\ search.searchMethod = search.tier

\* C23: on a run whose stages all succeeded, the deletion of every temporary
\* frame file and of the audio file is attempted after the record is saved,
\* and a failing deletion does not change the outcome: the cleanup step
\* removes every file of the run but those whose unlink failed, touches no
\* other file, ends the run complete with a success answer (in part_000
\* percent 100 with the videoUrl) and leaves the record in the collection.
C23_CleanupNeverFailsTheRun ==
    [][\A r \in Requests :
          (req[r].pc = "cleanup" /\ req'[r] # req[r]) =>
             /\ RecordsBy(videos, r) # {}
             /\ videos' = videos
             /\ Cardinality(TempFiles(r) \cap DOMAIN disk') <= MaxUnlinkFailures
             /\ DOMAIN disk \ TempFiles(r) \subseteq DOMAIN disk'
             /\ req'[r].pc = "done"
             /\ req'[r].res = Respond(200, NullError, VideoUrl(req[r].videoPath))
             /\ impl = "part_000" =>
                   /\ generationProgress'.progress = 100
                   /\ generationProgress'.videoUrl = VideoUrl(req[r].videoPath)
                   /\ generationProgress'.error = NullError]_vars

\* A run has completed although the unlink of one of its files failed.
C23_Witness ==
    \E r \in Requests :
       /\ req[r].pc = "done"
       /\ req[r].res.code = 200
       /\ RecordsBy(videos, r) # {}
       /\ TempFilesOnDisk # {}
       /\ \A q \in Requests : q # r => req[q].pc = "idle"

\* C24: for every positive duration and every number n >= 1 of frames,
\* createVideo gives each frame the same display time ceil(duration / n), a
\* whole number of seconds that is at least 1 and less than duration / n + 1,
\* so that the sum of the display times is not less than the duration (for
\* the frames handed to the encoder and kept until the cleanup).
C24_SlicesCoverTheDuration ==
    \A r \in Requests :
       (impl = "index" /\ Stage(req[r].pc) \in 3..5
          /\ req[r].durationNum.n > 0 /\ Len(req[r].frames) >= 1) =>
          LET duration == req[r].durationNum.n
              n == Len(req[r].frames)
              slice == FrameSlice(duration, req[r].frames)
          IN /\ slice >= 1
             /\ n * slice >= duration
             /\ n * (slice - 1) < duration
             /\ PlaybackDuration(duration, req[r].frames) = n * slice

\* 7 seconds on 3 frames, assembled: 3 seconds each, 9 in all.
C24_Witness ==
    /\ impl = "index"
    /\ req[1].pc = "save"
    /\ req[1].durationNum = Num(7)
    /\ Len(req[1].frames) = 3
    /\ PlaybackDuration(7, req[1].frames) = 9

C26_MusicFailureFailsTheRun ==
    [][\A r \in Requests :
          impl = "part_000" =>
             /\ req'[r].queries = <<>> /\ req'[r].pc \notin {"search", "download"}
             /\ search' = IdleSearch
             /\ (req[r].pc = "music" /\ req'[r] # req[r]) =>
                   \/ /\ req'[r].pc = "encode"
                      /\ req'[r].audioPath \in DOMAIN disk'
                   \/ /\ req'[r].pc = "failed"
                      /\ req'[r].res = Respond(500, Err("Music generation failed", 0), NoPath)
                      /\ generationProgress'.progress = -1
                      /\ generationProgress'.error = Err("Music generation failed", 0)
                      /\ disk' = disk
                      /\ videos' = videos]_vars

\* The music call has failed after the frames were written.
C26_Witness ==
    \E r \in Requests :
       /\ impl = "part_000"
       /\ req[r].pc = "failed"
       /\ req[r].res.error = Err("Music generation failed", 0)
       /\ generationProgress.progress = -1
       /\ generationProgress.error = Err("Music generation failed", 0)
       /\ \E p \in DOMAIN disk : p.kind = "frame"
       /\ videos = <<>>

\* C27: within one request the image calls are sequential with a fixed delay
\* between them: the call for the next frame is issued only after the answer
\* for the frame before it was received and its file written, and after the
\* delay has elapsed, so that every step that issues a further image call of
\* a request is the end of the delay.
C27_DelayBetweenImageCalls ==
    [][\A r \in Requests :
          (/\ req[r].pc # "idle"
           /\ req'[r].pc = "frames"
           /\ req'[r].i # req[r].i)
          => /\ req[r].pc = "delay"
             /\ req'[r].i = req[r].i + 1
             /\ Len(req[r].frames) >= 1]_vars

\* C28: for every duration that passes the validation, zero and negative
\* numbers included, the frame count handed to generateVideoFrames is at
\* least 1, and createVideo is never called with an empty list of frames.
C28_AtLeastOneFrame ==
    \A r \in Requests :
       /\ InFlight(r) => req[r].numFrames >= 1
       /\ req[r].pc = "encode" => Len(req[r].frames) >= 1

\* The prompt of the image call request r waits for, and the 1-based index
\* of its frame: part_000 counts the frames from 1, index.js from 0.
FrameIndex(r) == IF impl = "part_000" THEN req[r].i ELSE req[r].i + 1

SentFramePrompt(r) ==
    IF impl = "part_000"
    THEN generateFramePrompt(Raw(req[r].prompt), req[r].i, req[r].numFrames)
    ELSE I_FramePrompt(Raw(req[r].prompt), req[r].i)

\* C29: the prompt sent to the image service for frame i (1-based) of n is
\* the output of generateFramePrompt: the base prompt, the scene phrase of
\* table entry i for i in 1..5 and of entry 1 for i > 5, then the five
\* enhancers in their order.
C29_FramePromptFromBuilder ==
    \A r \in Requests :
       req[r].pc = "frames" =>
          SentFramePrompt(r) =
             Raw(req[r].prompt) \o ", "
             \o (IF FrameIndex(r) \in 1..5 THEN scenes[FrameIndex(r)] ELSE scenes[1])
             \o ", cinematic lighting, professional photography, high detail, "
             \o "8k resolution, masterful composition"

\* C30: a poll of GET /api/progress can be answered in every state, returns
\* the progress state as it is at that moment, and leaves the progress
\* state, the position and the locals of every request, the collection and
\* the files as they are, so that no step of a pipeline waits for it.
C30_PollReadsAndChangesNothing ==
    /\ [](impl = "part_000" => ENABLED G_GetProgress)
    /\ [][polled' # polled =>
             /\ polled' = generationProgress
             /\ UNCHANGED <<client, impl, now, generationProgress, disk, videos, req, search, listing>>]_vars

\* A poll was answered while the music was awaited, and the request has
\* gone on to the encoder since.
C30_Witness ==
    /\ polled.progress = MusicPercent
    /\ polled.status = Status("Generating music...", 0, 0)
    /\ \E r \in Requests : req[r].pc = "encode" /\ Alone(r)
    /\ generationProgress.progress = CreatingPercent

\* C31: one run of the encoder resolves to one outcome for the route: a
\* request leaves the assembly once, for the save of its record after the
\* encoder's end or for its failure, answered 500, after the encoder's error
\* or an output that is not there; a request that has left the assembly does
\* not come back to it; and a progress event of the encoder changes the
\* progress state only in a step of a request that is in the assembly before
\* and after it.
C31_OneEncoderOutcome ==
    [][/\ \A r \in Requests :
             /\ (req[r].pc = "encode" /\ req'[r].pc # "encode") =>
                   \/ /\ req'[r].pc = "save"
                      /\ req'[r].videoPath = req[r].outputPath
                      /\ req'[r].res = NoResponse
                   \/ /\ req'[r].pc = "failed"
                      /\ req'[r].res.code = 500
                      /\ req'[r].res.error # NullError
             /\ (req[r].pc # "encode" /\ req'[r].pc = "encode") => Stage(req[r].pc) = 2
             /\ Stage(req[r].pc) >= 4 => Stage(req'[r].pc) >= 4
       /\ (/\ generationProgress' # generationProgress
           /\ generationProgress'.status.label = "Encoding video")
          => \E r \in Requests :
                /\ req[r].pc = "encode" /\ req'[r].pc = "encode"
                /\ req'[r].encoderPercent = generationProgress'.status.i
                /\ generationProgress'.progress = EncodingPercent(req'[r].encoderPercent)]_vars

\* The encoder has reported 100 percent and its end: the record is being
\* saved.
C31_Witness ==
    \E r \in Requests :
       /\ impl = "part_000"
       /\ req[r].pc = "save"
       /\ req[r].encoderPercent = 100
       /\ req[r].videoPath = req[r].outputPath
       /\ generationProgress.status = Status("Finalizing...", 0, 0)


\* C32: whenever the server has answered a POST /api/generate-video of the
\* client with success, the client that took the answer has accepted it:
\* it holds the request identifier it polls with, or shows the video, and
\* it has not ended in its error state.
C32_ClientAcceptsSuccess ==
    \A r \in Requests :
        (/\ client.sent = r
         /\ ~client.awaiting
         /\ req[r].res.code = 200)
        => /\ client.error = "null"
           /\ \/ client.currentRequestId # 0
              \/ client.generatedVideo # NoPath

\* The entries of the previous-generations list that show the video of url.
EntriesFor(previousGenerations, url) ==
    Cardinality({n \in 1..Len(previousGenerations) : previousGenerations[n].videoUrl = url})

\* C33: the client issues a poll only while it holds a request identifier
\* and is loading; the callback that takes progress 100 with a videoUrl,
\* progress -1 or a failed poll leaves loading false; a change of the
\* previous-generations list puts the finished video at its head, and the
\* list never holds more than one entry for one request.
C33_PollsWhileLoadingRecordsOnce ==
    [][/\ Len(client'.polls) > Len(client.polls)
            => /\ client.currentRequestId # 0
               /\ client.loading
       /\ (/\ Len(client'.polls) < Len(client.polls)
           /\ \/ client'.progress = ErrorPercent
              \/ client'.generatedVideo # client.generatedVideo
              \/ client'.error # client.error)
            => ~client'.loading
       /\ client'.previousGenerations # client.previousGenerations
            => client'.previousGenerations =
                  <<newGeneration(client'.generatedVideo)>> \o client.previousGenerations
       /\ \A id \in 1..MaxSubmits :
             EntriesFor(client'.previousGenerations, Path("url", id, 0)) <= 1]_vars

\* C34: a step in which a sound-library query or the preview download
\* raises an error ends the audio stage at once, at whatever tier: the
\* route answers 500 "Failed to get audio" (searchAndDownloadMusic throws),
\* no further query is issued and no audio file is written; a failed run
\* stays failed, so the assembler is never started for it.
C34_ErrorEndsAudioStage ==
    [][/\ \A r \in Requests :
             /\ (\/ I_SearchResponse(r, "error")
                 \/ \E t \in DateNow : I_DownloadResponse(r, FALSE, t))
                => /\ req'[r] = Ended("failed", Respond(500, Err("Failed to get audio", 0), NoPath))
                   /\ disk' = disk
             /\ req[r].pc = "failed" => req'[r] = req[r]
       /\ (S_SearchResponse("error") \/ S_DownloadResponse(FALSE))
             => /\ search'.pc = "threw"
                /\ search'.queries = search.queries
                /\ disk' = disk
       /\ search.pc = "threw" => search' = search]_vars

\* searchAndDownloadMusic threw on the error of a keyword query while
\* queries of the cascade were still unissued.
C34_Witness ==
    /\ impl = "searchAndDownloadMusic"
    /\ search.pc = "threw"
    /\ search.searchResponse = "error"
    /\ search.tier = "keyword"
    /\ Len(search.queries) < Len(CascadeQueries(search.prompt))
    /\ DOMAIN disk = {}
====
